---- MODULE Spec2Model ----
(***************************************************************************)
(* EV Charger Site Generator (src/app.py): the site enrichment pipeline     *)
(* process_site, its provider adapters, the single-site and batch handlers  *)
(* of the Streamlit script, and the pure helpers they use.                  *)
(* TomTom EV Charging Stations Availability (src/app2.py): the search       *)
(* handler and its two cached TomTom lookups.                               *)
(*                                                                           *)
(* Conventions                                                               *)
(*   - Python None is the empty sequence <<>>, a present value v is <<v>>.   *)
(*   - Python strings are TLA+ strings; Len, SubSeq and \o act on them.      *)
(*   - A call that can raise yields Ret(v) or Raise(e).                      *)
(*   - Coordinates are whole degrees; kVA figures are integer hundredths.    *)
(***************************************************************************)
EXTENDS Integers, Sequences, FiniteSets, TLC

VARIABLES
    cache,          \* st.cache_data entries of the five cached adapters
    session_state,  \* st.session_state: "single_site" and "batch_results"
    df,             \* the uploaded CSV (pd.read_csv), a sequence of rows
    last,           \* what the last handler run did (inputs, requests, messages)
    runs,           \* handler runs so far in this session
    config,         \* the installation: TomTom key configured, PROJ data usable
    road_in,        \* classify_road_type: the (place_types, road_name) given
    road_out,       \* classify_road_type: what the call produced
    now,            \* app2: seconds of wall-clock time since the session began
    tomtom_cache,   \* app2: st.cache_data(ttl=...) entries of the two lookups
    tomtom_last     \* app2: what the last run of the search handler did

tomtom_vars == <<now, tomtom_cache, tomtom_last>>

vars == <<cache, session_state, df, last, runs, config, road_in, road_out,
          now, tomtom_cache, tomtom_last>>

(***************************************************************************)
(* Bounds of the model                                                      *)
(***************************************************************************)
MaxRuns == 2        \* handler runs explored per session
MaxRows == 2        \* rows of an uploaded CSV
MaxCount == 2       \* largest charger count entered
MaxNameLen == 3     \* longest road name given to classify_road_type
MaxTags == 2        \* longest list of place types given to classify_road_type
MaxClock == 240     \* app2: seconds of session time explored
TickSeconds == 30   \* app2: seconds between two looks at the clock

(***************************************************************************)
(* Python values                                                            *)
(***************************************************************************)
None == <<>>
Some(v) == <<v>>
IsNone(o) == o = <<>>
Ret(v) == [raised |-> FALSE, value |-> v]
Raise(e) == [raised |-> TRUE, exc |-> e]

\* dict.update: keys of u are added to or overwritten in d.
Update(d, u) ==
    [k \in DOMAIN d \cup DOMAIN u |-> IF k \in DOMAIN u THEN u[k] ELSE d[k]]

(***************************************************************************)
(* str methods used by the road classifier                                  *)
(***************************************************************************)
Char(s, i) == SubSeq(s, i, i)

UpperLetters == "ABCDEFGHIJKLMNOPQRSTUVWXYZ"
LowerLetters == "abcdefghijklmnopqrstuvwxyz"

LowerOf ==
    [c \in {Char(UpperLetters, i) : i \in 1..Len(UpperLetters)} |->
        Char(LowerLetters,
             CHOOSE i \in 1..Len(UpperLetters) : Char(UpperLetters, i) = c)]

LowerChar(c) == IF c \in DOMAIN LowerOf THEN LowerOf[c] ELSE c

RECURSIVE Lower(_)
Lower(s) == IF Len(s) = 0 THEN "" ELSE LowerChar(Char(s, 1)) \o Lower(Tail(s))

\* keyword in s
Contains(s, keyword) ==
    \E i \in 1..(Len(s) - Len(keyword) + 1) :
        SubSeq(s, i, i + Len(keyword) - 1) = keyword

StartsWith(s, prefix) ==
    Len(s) >= Len(prefix) /\ SubSeq(s, 1, Len(prefix)) = prefix

IsSpace(c) == c \in {" ", "\t"}
IsDigitChar(c) == c \in {"0", "1", "2", "3", "4", "5", "6", "7", "8", "9"}

\* s.isdigit(): non-empty and every character a digit
IsDigit(s) == Len(s) > 0 /\ \A i \in 1..Len(s) : IsDigitChar(Char(s, i))

\* s.split()[0]: the first whitespace-delimited word; IndexError when s holds
\* no word (it is empty or all whitespace).
FirstWord(s) ==
    LET starts == {i \in 1..Len(s) : ~IsSpace(Char(s, i))}
    IN  IF starts = {} THEN Raise("IndexError")
        ELSE LET b == CHOOSE i \in starts : \A j \in starts : i <= j
                 ends == {i \in b..Len(s) :
                             i = Len(s) \/ IsSpace(Char(s, i + 1))}
                 e == CHOOSE i \in ends : \A j \in ends : i <= j
             IN  Ret(SubSeq(s, b, e))

\* the test `name_lower.startswith(letter) and len(name) > 1 and
\* name[1:].split()[0].isdigit()` of the A-road and B-road branches
WordIsDigit(w) == IF w.raised THEN w ELSE Ret(IsDigit(w.value))

LetterRoadTest(road_name, letter) ==
    IF ~StartsWith(Lower(road_name), letter) THEN Ret(FALSE)
    ELSE IF ~(Len(road_name) > 1) THEN Ret(FALSE)
    ELSE WordIsDigit(FirstWord(SubSeq(road_name, 2, Len(road_name))))

MotorwayKeywords == {"motorway", "m1", "m25", "m2", "m3", "m4", "m5", "m6"}
DualKeywords == {"dual carriageway", "bypass"}
LocalKeywords == {"street", "road", "avenue", "lane", "drive", "close", "way"}
RoundaboutKeywords == {"roundabout", "circus"}

\* the if/elif chain on the lower-cased name; a and b are the tests of the
\* A-road and the B-road branch, evaluated only when the chain reaches them
NameRules(road_name_lower, a, b) ==
    IF \E k \in MotorwayKeywords : Contains(road_name_lower, k)
        THEN Ret("Motorway")
    ELSE IF a.raised THEN a
    ELSE IF a.value THEN Ret("A Road")
    ELSE IF b.raised THEN b
    ELSE IF b.value THEN Ret("B Road")
    ELSE IF \E k \in DualKeywords : Contains(road_name_lower, k)
        THEN Ret("Dual Carriageway")
    ELSE IF \E k \in LocalKeywords : Contains(road_name_lower, k)
        THEN Ret("Local Road")
    ELSE IF \E k \in RoundaboutKeywords : Contains(road_name_lower, k)
        THEN Ret("Roundabout")
    ELSE Ret("Local Road")

\* classify_road_type_from_name answering "Unknown" for a missing name
classify_road_type_from_name_unknown(road_name) ==
    IF road_name = "" \/ road_name = "Unknown Road" THEN Ret("Unknown")
    ELSE NameRules(Lower(road_name), LetterRoadTest(road_name, "a"),
                   LetterRoadTest(road_name, "b"))

classify_road_type_from_name(road_name) ==
    IF road_name = "" \/ road_name = "Unknown Road" THEN Ret("Local Road")
    ELSE NameRules(Lower(road_name), LetterRoadTest(road_name, "a"),
                   LetterRoadTest(road_name, "b"))

\* x in list
In(x, list) == \E i \in 1..Len(list) : list[i] = x

\* the recognised place types in the order of the if/elif chain, and the
\* value returned for each
TagPriority ==
    <<"highway", "primary", "secondary", "tertiary", "residential", "service",
      "trunk", "route">>
TagLabel ==
    [highway |-> "Highway", primary |-> "Primary Road",
     secondary |-> "Secondary Road", tertiary |-> "Tertiary Road",
     residential |-> "Residential Street", service |-> "Service Road",
     trunk |-> "Trunk Road", route |-> "Route"]

\* classify_road_type answering for the first recognised tag of place_types,
\* in the order of the list
classify_road_type_list_order(place_types, road_name) ==
    LET hits == {i \in 1..Len(place_types) : In(place_types[i], TagPriority)}
    IN  IF hits # {}
        THEN Ret(TagLabel[place_types[CHOOSE i \in hits : \A j \in hits : i <= j]])
        ELSE classify_road_type_from_name(road_name)

classify_road_type(place_types, road_name) ==
    IF In("highway", place_types) THEN Ret("Highway")
    ELSE IF In("primary", place_types) THEN Ret("Primary Road")
    ELSE IF In("secondary", place_types) THEN Ret("Secondary Road")
    ELSE IF In("tertiary", place_types) THEN Ret("Tertiary Road")
    ELSE IF In("residential", place_types) THEN Ret("Residential Street")
    ELSE IF In("service", place_types) THEN Ret("Service Road")
    ELSE IF In("trunk", place_types) THEN Ret("Trunk Road")
    ELSE IF In("route", place_types) THEN Ret("Route")
    ELSE classify_road_type_from_name(road_name)

(***************************************************************************)
(* Power sizing                                                             *)
(***************************************************************************)
\* round(num/den, 2) in hundredths, for den > 0.  The quotients that occur
\* have denominator 9 once reduced, so no value lies half-way between two
\* hundredths and the nearest hundredth is unambiguous.
Round2(num, den) == (200 * num + den) \div (2 * den)

\* calculate_kva without the "10% overhead": round(total_kw / 0.9, 2)
calculate_kva_plain(fast, rapid, ultra, fast_kw, rapid_kw, ultra_kw) ==
    LET total_kw == fast * fast_kw + rapid * rapid_kw + ultra * ultra_kw
    IN  Round2(total_kw * 10, 9)

\* round(total_kw / 0.9 * 1.1, 2)
calculate_kva(fast, rapid, ultra, fast_kw, rapid_kw, ultra_kw) ==
    LET total_kw == fast * fast_kw + rapid * rapid_kw + ultra * ultra_kw
    IN  Round2(total_kw * 11, 9)

(***************************************************************************)
(* Grid conversion                                                          *)
(***************************************************************************)
\* Transformer.from_crs("epsg:4326", "epsg:27700"): raises when the PROJ data
\* of the installation cannot be loaded.
get_transformer(proj_ok) ==
    IF proj_ok THEN Ret("epsg:27700") ELSE Raise("CRSError")

\* transformer.transform: the National Grid projection, linearised about its
\* true origin (49N, 2W; false origin 400000, -100000); "inf" outside the
\* domain of the projection.
Transform(lat, lon) ==
    IF lat < -90 \/ lat > 90 \/ lon < -180 \/ lon > 180 THEN "inf"
    ELSE "finite"

Easting(lat, lon) == 400000 + 70000 * (lon + 2)
Northing(lat, lon) == 111000 * (lat - 49) - 100000

convert_to_british_grid(proj_ok, lat, lon) ==
    LET transformer == get_transformer(proj_ok)
    IN  IF transformer.raised THEN transformer
        \* round(inf) raises OverflowError inside the try: (None, None)
        ELSE IF Transform(lat, lon) = "inf" THEN Ret(<<None, None>>)
        ELSE Ret(<<Some(Easting(lat, lon)), Some(Northing(lat, lon))>>)

(***************************************************************************)
(* Provider responses                                                       *)
(*                                                                           *)
(* The outcome of the HTTP exchanges of one adapter call:                   *)
(*   OK             HTTP 200, a well-formed body with the provider's data   *)
(*   Timeout        requests.get raises (timeout, connection error)         *)
(*   HttpError      a non-200 status with the provider's JSON error body    *)
(*   ProviderError  HTTP 200, the body reports a denial or quota error      *)
(*   ParseError     HTTP 200, the body is not JSON: r.json() raises         *)
(***************************************************************************)
Outcome == {"OK", "Timeout", "HttpError", "ProviderError", "ParseError"}
FailureClass == Outcome \ {"OK"}
\* the request itself or r.json() raises
Raises(class) == class \in {"Timeout", "ParseError"}
ExcMessage(class) ==
    IF class = "Timeout" THEN "Read timed out."
    ELSE "Expecting value: line 1 column 1 (char 0)"

Providers == {"postcode", "geocode", "traffic", "amenities", "ev", "roads"}
CachedProviders == Providers \ {"traffic"}

\* get_postcode_info without its try/except: the exception of the request or
\* of r.json() reaches the caller
get_postcode_info_unguarded(resp) ==
    IF Raises(resp.class) THEN Raise(ExcMessage(resp.class))
    ELSE IF resp.class = "OK" /\ Len(resp.result) > 0
        THEN Ret(<<resp.result[1].postcode, resp.result[1].admin_ward,
                   resp.result[1].admin_district>>)
    ELSE Ret(<<"N/A", "N/A", "N/A">>)

\* get_postcode_info: every failure, and an empty result, is the N/A triple.
get_postcode_info(resp) ==
    IF Raises(resp.class) THEN Ret(<<"N/A", "N/A", "N/A">>)
    ELSE IF resp.class = "OK" /\ Len(resp.result) > 0
        THEN Ret(<<resp.result[1].postcode, resp.result[1].admin_ward,
                   resp.result[1].admin_district>>)
    ELSE Ret(<<"N/A", "N/A", "N/A">>)

\* the address component types get_geocode_details reads, and its keys
GeoKeyOf ==
    [route |-> "street", street_number |-> "street_number",
     neighborhood |-> "neighborhood", locality |-> "city",
     administrative_area_level_2 |-> "county",
     administrative_area_level_1 |-> "region",
     postal_code |-> "postcode", country |-> "country"]

\* a dict keyed by the strings in keys
RECURSIVE GeoDetails(_, _)
GeoDetails(comps, details) ==
    IF comps = <<>> THEN details
    ELSE LET c == Head(comps)
             hit == {GeoKeyOf[t] : t \in {u \in DOMAIN GeoKeyOf : In(u, c.types)}}
         IN  GeoDetails(Tail(comps),
                        [k \in DOMAIN details \cup hit |->
                            IF k \in hit THEN c.long_name ELSE details[k]])

EmptyDict == [k \in {} |-> ""]

get_geocode_details(resp) ==
    IF Raises(resp.class) THEN Ret(EmptyDict)
    ELSE IF resp.class = "OK" /\ Len(resp.results) > 0
        THEN Ret(Update(GeoDetails(resp.results[1].address_components, EmptyDict),
                        [formatted_address |-> resp.results[1].formatted_address]))
    ELSE Ret(EmptyDict)

TrafficNA == [speed |-> None, freeFlow |-> None, congestion |-> "N/A"]

\* speed / freeflow compared with 0.85 and 0.6
CongestionLevel(speed, freeflow) ==
    IF 100 * speed > 85 * freeflow THEN "Low"
    ELSE IF 10 * speed > 6 * freeflow THEN "Medium"
    ELSE "High"

\* a lookup that asks TomTom whether or not a key is configured
get_tomtom_traffic_keyless(tomtom_key, resp) ==
    IF Raises(resp.class) \/ resp.class # "OK" THEN Ret(TrafficNA)
    ELSE IF resp.currentSpeed # None /\ resp.freeFlowSpeed # None
            /\ resp.currentSpeed[1] # 0 /\ resp.freeFlowSpeed[1] > 0
         THEN Ret([speed |-> resp.currentSpeed,
                   freeFlow |-> resp.freeFlowSpeed,
                   congestion |-> CongestionLevel(resp.currentSpeed[1],
                                                  resp.freeFlowSpeed[1])])
    ELSE Ret(TrafficNA)

get_tomtom_traffic(tomtom_key, resp) ==
    IF ~tomtom_key THEN Ret(TrafficNA)
    ELSE IF Raises(resp.class) THEN Ret(TrafficNA)
    ELSE IF resp.class = "OK"
        THEN IF resp.currentSpeed # None /\ resp.freeFlowSpeed # None
                /\ resp.currentSpeed[1] # 0 /\ resp.freeFlowSpeed[1] # 0
                /\ resp.freeFlowSpeed[1] > 0
             THEN Ret([speed |-> resp.currentSpeed,
                       freeFlow |-> resp.freeFlowSpeed,
                       congestion |-> CongestionLevel(resp.currentSpeed[1],
                                                      resp.freeFlowSpeed[1])])
             ELSE Ret(TrafficNA)
    ELSE Ret(TrafficNA)

\* "; ".join(items)
RECURSIVE Join(_)
Join(items) ==
    IF items = <<>> THEN ""
    ELSE IF Len(items) = 1 THEN items[1]
    ELSE items[1] \o "; " \o Join(Tail(items))

\* get_nearby_amenities: one nearby search per place type; an exception of any
\* of them ends the call with an error text, a failed status only warns.
get_nearby_amenities(resp) ==
    IF Raises(resp.class)
        THEN Ret("Error retrieving amenities: " \o ExcMessage(resp.class))
    ELSE IF resp.class = "OK" /\ resp.amenities # <<>>
        THEN Ret(Join(resp.amenities))
    ELSE Ret("None nearby")

\* "Small delay to avoid rate limiting": time.sleep(0.1) after every nearby
\* search of the loop over the place types, whatever the search answered; the
\* delays, in milliseconds, that precede the second and the later searches
PlaceTypeCount == 10
SleepMs == 100
AmenityPacing(resp) ==
    IF Raises(resp.class) THEN <<>>
    ELSE [i \in 1..(PlaceTypeCount - 1) |-> SleepMs]

\* a coordinate test that lets every value through
TruthyAlways(o) == TRUE

\* truthiness of an optional number: None and 0 are false
Truthy(o) == o # None /\ o[1] # 0

EvKeywords ==
    {"electric", "ev", "charging", "tesla", "chargepoint", "ionity",
     "pod point", "ecotricity"}

\* the nearby searches of get_ev_charging_stations, in order: all_results, or
\* the exception of the first search that raises
RECURSIVE EvSearch(_, _)
EvSearch(searches, all_results) ==
    IF searches = <<>> THEN Ret(all_results)
    ELSE LET r == Head(searches)
         IN  IF Raises(r.class) THEN Raise(ExcMessage(r.class))
             ELSE EvSearch(Tail(searches),
                           IF r.class = "OK" THEN all_results \o r.results
                           ELSE all_results)

\* "Remove duplicates based on place_id": the basic info of every EV-related
\* place, first occurrence first
RECURSIVE EvUnique(_, _)
EvUnique(all_results, unique_places) ==
    IF all_results = <<>> THEN unique_places
    ELSE LET place == Head(all_results)
             seen == \E i \in 1..Len(unique_places) :
                        unique_places[i].place_id = place.place_id[1]
             name == Lower(place.name)
             related ==
                 (\E k \in EvKeywords : Contains(name, k))
                 \/ In("electric_vehicle_charging_station", place.types)
         IN  EvUnique(Tail(all_results),
                 IF place.place_id # None /\ ~seen /\ related
                 THEN Append(unique_places,
                             [place_id |-> place.place_id[1],
                              name |-> place.name,
                              latitude |-> place.lat,
                              longitude |-> place.lng])
                 ELSE unique_places)

\* the place-details loop: one request per unique place
RECURSIVE EvDetails(_, _, _)
EvDetails(unique_places, details, ev_stations) ==
    IF unique_places = <<>> THEN ev_stations
    ELSE LET basic_info == Head(unique_places)
             d == details[basic_info.place_id]
             ev_station ==
                 [name |-> d.name, rating |-> d.rating,
                  address |-> d.address, phone |-> d.phone,
                  place_id |-> basic_info.place_id,
                  latitude |-> IF d.lat # None THEN d.lat
                               ELSE basic_info.latitude,
                  longitude |-> IF d.lng # None THEN d.lng
                                ELSE basic_info.longitude]
         IN  EvDetails(Tail(unique_places), details,
                 IF Raises(d.class)
                 \* "Add basic info if details fail"
                 THEN IF Truthy(basic_info.latitude) /\ Truthy(basic_info.longitude)
                      THEN Append(ev_stations, basic_info) ELSE ev_stations
                 ELSE IF d.class = "OK"
                 \* "Only add if we have valid coordinates"
                 THEN IF Truthy(ev_station.latitude) /\ Truthy(ev_station.longitude)
                      THEN Append(ev_stations, ev_station) ELSE ev_stations
                 ELSE ev_stations)

\* the except of the outer try returns the (still empty) ev_stations
EvStations(all_results, details) ==
    IF all_results.raised THEN Ret(<<>>)
    ELSE Ret(EvDetails(EvUnique(all_results.value, <<>>), details, <<>>))

get_ev_charging_stations(resp) ==
    EvStations(EvSearch(resp.searches, <<>>), resp.details)

RoadDefaults ==
    [snapped_road_name |-> "Unknown", snapped_road_type |-> "Unknown",
     nearest_road_name |-> "Unknown", nearest_road_type |-> "Unknown",
     place_id |-> None]

\* The place-details lookup of a snapped or nearest point: the road_info after
\* it, and whether an exception left it.  which is "snapped" or "nearest".
\* road_info[...name] = name, then road_info[...type] = the classification
RoadTyped(road_info, which, name, type) ==
    LET named == IF which = "snapped"
                 THEN [road_info EXCEPT !.snapped_road_name = name]
                 ELSE [road_info EXCEPT !.nearest_road_name = name]
    IN  IF type.raised THEN [road_info |-> named, raised |-> TRUE]
        ELSE [road_info |->
                 IF which = "snapped"
                 THEN [named EXCEPT !.snapped_road_type = type.value]
                 ELSE [named EXCEPT !.nearest_road_type = type.value],
              raised |-> FALSE]

RoadNamed(road_info, which, types, name) ==
    RoadTyped(road_info, which, name, classify_road_type(types, name))

RoadPlace(road_info, which, place) ==
    IF Raises(place.class) THEN [road_info |-> road_info, raised |-> TRUE]
    ELSE IF place.class # "OK" THEN [road_info |-> road_info, raised |-> FALSE]
    ELSE RoadNamed(road_info, which, place.types,
                   IF place.name # None THEN place.name[1] ELSE "Unknown Road")

SnapPlaced(p) ==
    [road_info |-> p.road_info, place_url |-> TRUE, raised |-> p.raised]

\* "Method 1: Snap to Roads API": road_info, whether place_url was assigned,
\* and whether an exception left the block
RoadSnap(road_info, resp) ==
    IF Raises(resp.snap.class)
        THEN [road_info |-> road_info, place_url |-> FALSE, raised |-> TRUE]
    ELSE IF resp.snap.class = "OK" /\ resp.snap.points # <<>>
            /\ resp.snap.points[1] # None
        THEN SnapPlaced(RoadPlace([road_info EXCEPT
                                     !.place_id = resp.snap.points[1]],
                                  "snapped", resp.snap_place))
    ELSE [road_info |-> road_info, place_url |-> FALSE, raised |-> FALSE]

\* "Method 2: Nearest Roads API", inside its own try; it reads the place_url
\* that the snap branch assigns (UnboundLocalError otherwise)
RoadNearest(road_info, place_url, resp) ==
    IF Raises(resp.nearest.class) THEN road_info
    ELSE IF resp.nearest.class = "OK" /\ resp.nearest.points # <<>>
            /\ resp.nearest.points[1] # None
        THEN IF ~place_url THEN road_info
             ELSE RoadPlace(road_info, "nearest", resp.nearest_place).road_info
    ELSE road_info

\* "Use as fallback for both if they're unknown"
FallbackUse(road_info, fallback_road_name, fallback_road_type) ==
    LET snapped ==
            IF road_info.snapped_road_name = "Unknown"
            THEN [road_info EXCEPT
                    !.snapped_road_name = fallback_road_name,
                    !.snapped_road_type = fallback_road_type.value]
            ELSE road_info
    IN  IF fallback_road_type.raised THEN road_info
        ELSE IF snapped.nearest_road_name = "Unknown"
        THEN [snapped EXCEPT
                !.nearest_road_name = fallback_road_name,
                !.nearest_road_type = fallback_road_type.value]
        ELSE snapped

FallbackRoute(road_info, fallback_road_name) ==
    FallbackUse(road_info, fallback_road_name,
                classify_road_type_from_name(fallback_road_name))

\* "Fallback: Use reverse geocoding if both APIs fail"
RoadFallback(road_info, resp) ==
    IF ~(road_info.snapped_road_name = "Unknown"
         /\ road_info.nearest_road_name = "Unknown") THEN road_info
    ELSE IF Raises(resp.geocode.class) THEN road_info
    ELSE IF resp.geocode.class = "OK" /\ Len(resp.geocode.results) > 0
        THEN LET comps == resp.geocode.results[1].address_components
                 routes == {i \in 1..Len(comps) : In("route", comps[i].types)}
             IN  IF routes = {} THEN road_info
                 ELSE FallbackRoute(road_info,
                          comps[CHOOSE r \in routes : \A q \in routes : r <= q]
                              .long_name)
    ELSE road_info

\* the outer try after the snap block: an exception of it skips method 2
RoadAfterSnap(snap, resp) ==
    IF snap.raised THEN snap.road_info
    ELSE RoadNearest(snap.road_info, snap.place_url, resp)

get_road_info_google_roads(resp) ==
    Ret(RoadFallback(RoadAfterSnap(RoadSnap(RoadDefaults, resp), resp), resp))

(***************************************************************************)
(* st.cache_data: per adapter, the set of <<(lat, lon), returned value>>     *)
(***************************************************************************)
EmptyCache == [p \in CachedProviders |-> {}]

Cached(c, p, key) == {e \in c[p] : e[1] = key}

\* A call of the cached adapter p with arguments key, whose body would return
\* computed: a hit returns the stored value and sends nothing; a miss runs the
\* body and stores what it returns (an exception is not stored).
CachedCall(c, p, key, computed) ==
    IF Cached(c, p, key) # {}
        THEN [ret |-> Ret((CHOOSE e \in Cached(c, p, key) : TRUE)[2]),
              cache |-> c, sent |-> {}]
    ELSE IF computed.raised
        THEN [ret |-> computed, cache |-> c, sent |-> {p}]
    ELSE [ret |-> computed,
          cache |-> [c EXCEPT ![p] = @ \cup {<<key, computed.value>>}],
          sent |-> {p}]

(***************************************************************************)
(* process_site                                                             *)
(***************************************************************************)
\* "Initialize default values"
\* a result that starts from the inputs only, the other keys being added as
\* the try block reaches them
DefaultResultInputs(a) ==
    [latitude |-> a.lat, longitude |-> a.lon,
     fast_chargers |-> a.fast, rapid_chargers |-> a.rapid,
     ultra_chargers |-> a.ultra]

DefaultResult(a) ==
    [latitude |-> a.lat, longitude |-> a.lon,
     easting |-> None, northing |-> None,
     postcode |-> "N/A", ward |-> "N/A", district |-> "N/A",
     street |-> "N/A", street_number |-> "N/A", neighborhood |-> "N/A",
     city |-> "N/A", county |-> "N/A", region |-> "N/A", country |-> "N/A",
     formatted_address |-> "N/A",
     fast_chargers |-> a.fast, rapid_chargers |-> a.rapid,
     ultra_chargers |-> a.ultra,
     required_kva |-> 0,
     traffic_speed |-> None, traffic_freeflow |-> None,
     traffic_congestion |-> "N/A",
     amenities |-> "N/A",
     snapped_road_name |-> "Unknown", snapped_road_type |-> "Unknown",
     nearest_road_name |-> "Unknown", nearest_road_type |-> "Unknown",
     place_id |-> None,
     competitor_ev_count |-> 0, competitor_ev_names |-> "None",
     ev_stations_details |-> <<>>]

\* geo.get(k, "N/A")
Get(d, k, default) == IF k \in DOMAIN d THEN d[k] ELSE default

\* One guarded statement group of the try block.  s is the run so far: the
\* result, the cache, the providers requested and whether an exception has
\* already ended the block; call is what the adapter call did and merged the
\* fields process_site then writes from the value it returned.
Step(s, call, merged) ==
    IF s.cut THEN s
    ELSE IF call.ret.raised
        THEN [s EXCEPT !.cut = TRUE, !.cache = call.cache,
                       !.sent = @ \cup call.sent]
    ELSE [result |-> Update(s.result, merged),
          cache |-> call.cache, sent |-> s.sent \cup call.sent, cut |-> FALSE]

\* a call that is not cached
Plain(s, ret, p) ==
    [ret |-> ret, cache |-> s.cache, sent |-> p]

MergeGrid(v) == [easting |-> v[1], northing |-> v[2]]
MergeKva(v) == [required_kva |-> v]
MergePostcode(v) == [postcode |-> v[1], ward |-> v[2], district |-> v[3]]
\* a geocoder merge that also takes the postcode of the postal_code component
MergeGeocodePostal(geo) ==
    [street |-> Get(geo, "street", "N/A"),
     street_number |-> Get(geo, "street_number", "N/A"),
     neighborhood |-> Get(geo, "neighborhood", "N/A"),
     city |-> Get(geo, "city", "N/A"),
     county |-> Get(geo, "county", "N/A"),
     region |-> Get(geo, "region", "N/A"),
     country |-> Get(geo, "country", "N/A"),
     postcode |-> Get(geo, "postcode", "N/A"),
     formatted_address |-> Get(geo, "formatted_address", "N/A")]

MergeGeocode(geo) ==
    [street |-> Get(geo, "street", "N/A"),
     street_number |-> Get(geo, "street_number", "N/A"),
     neighborhood |-> Get(geo, "neighborhood", "N/A"),
     city |-> Get(geo, "city", "N/A"),
     county |-> Get(geo, "county", "N/A"),
     region |-> Get(geo, "region", "N/A"),
     country |-> Get(geo, "country", "N/A"),
     formatted_address |-> Get(geo, "formatted_address", "N/A")]
\* a merge that leaves traffic_freeflow as it was
MergeTrafficSpeedOnly(traffic) ==
    [traffic_speed |-> traffic.speed, traffic_congestion |-> traffic.congestion]
MergeTraffic(traffic) ==
    [traffic_speed |-> traffic.speed, traffic_freeflow |-> traffic.freeFlow,
     traffic_congestion |-> traffic.congestion]
MergeAmenities(v) == [amenities |-> v]
\* a merge that leaves ev_stations_details as it was
MergeEvSummary(ev_stations) ==
    LET ev_names == [i \in 1..Len(ev_stations) |-> ev_stations[i].name]
    IN  [competitor_ev_count |-> Len(ev_stations),
         competitor_ev_names |-> IF ev_names # <<>> THEN Join(ev_names)
                                 ELSE "None"]
MergeEv(ev_stations) ==
    LET ev_names == [i \in 1..Len(ev_stations) |-> ev_stations[i].name]
    IN  [competitor_ev_count |-> Len(ev_stations),
         competitor_ev_names |-> IF ev_names # <<>> THEN Join(ev_names)
                                 ELSE "None",
         ev_stations_details |-> ev_stations]
MergeRoads(road_info) ==
    [snapped_road_name |-> Get(road_info, "snapped_road_name", "Unknown"),
     snapped_road_type |-> Get(road_info, "snapped_road_type", "Unknown"),
     nearest_road_name |-> Get(road_info, "nearest_road_name", "Unknown"),
     nearest_road_type |-> Get(road_info, "nearest_road_type", "Unknown"),
     place_id |-> Get(road_info, "place_id", None)]

\* The statement groups of the try block, in order
StepGrid(s, call) == Step(s, call, MergeGrid(call.ret.value))
StepKva(s, call) == Step(s, call, MergeKva(call.ret.value))
StepPostcode(s, call) == Step(s, call, MergePostcode(call.ret.value))
StepGeocode(s, call) == Step(s, call, MergeGeocode(call.ret.value))
StepTraffic(s, call) == Step(s, call, MergeTraffic(call.ret.value))
StepAmenities(s, call) == Step(s, call, MergeAmenities(call.ret.value))
StepEv(s, call) == Step(s, call, MergeEv(call.ret.value))
StepRoads(s, call) == Step(s, call, MergeRoads(call.ret.value))

SiteGrid(s, a, cfg) ==
    StepGrid(s, Plain(s, convert_to_british_grid(cfg.proj_ok, a.lat, a.lon), {}))
SiteKva(s, a) ==
    StepKva(s, Plain(s, Ret(calculate_kva(a.fast, a.rapid, a.ultra,
                                          a.fast_kw, a.rapid_kw, a.ultra_kw)), {}))
SitePostcode(s, key, env) ==
    StepPostcode(s, CachedCall(s.cache, "postcode", key,
                               get_postcode_info(env.postcode)))
SiteGeocode(s, key, env) ==
    StepGeocode(s, CachedCall(s.cache, "geocode", key,
                              get_geocode_details(env.geocode)))
SiteTraffic(s, cfg, env) ==
    StepTraffic(s, Plain(s, get_tomtom_traffic(cfg.tomtom_key, env.traffic),
                         IF cfg.tomtom_key THEN {"traffic"} ELSE {}))
SiteAmenities(s, key, env) ==
    StepAmenities(s, CachedCall(s.cache, "amenities", key,
                                get_nearby_amenities(env.amenities)))
SiteEv(s, key, env) ==
    StepEv(s, CachedCall(s.cache, "ev", key, get_ev_charging_stations(env.ev)))
SiteRoads(s, key, env) ==
    StepRoads(s, CachedCall(s.cache, "roads", key,
                            get_road_info_google_roads(env.roads)))

\* process_site(lat, lon, fast, rapid, ultra, fast_kw, rapid_kw, ultra_kw) with
\* the adapters' cache c, under the installation cfg, when the providers
\* answer as in env.  It returns result whether or not the try block was cut
\* short; cut tells which.
SiteStart(a, c) ==
    [result |-> DefaultResult(a), cache |-> c, sent |-> {}, cut |-> FALSE]

SiteSteps(s0, a, key, cfg, env) ==
    SiteRoads(
      SiteEv(
        SiteAmenities(
          SiteTraffic(
            SiteGeocode(
              SitePostcode(
                SiteKva(SiteGrid(s0, a, cfg), a),
                key, env),
              key, env),
            cfg, env),
          key, env),
        key, env),
      key, env)

process_site(a, c, cfg, env) ==
    SiteSteps(SiteStart(a, c), a, <<a.lat, a.lon>>, cfg, env)

(***************************************************************************)
(* Text that the handlers convert: a text input or a CSV cell               *)
(***************************************************************************)
Num(v) == [kind |-> "num", v |-> v]
Text(t) == [kind |-> "text", t |-> t]

\* float(x): ValueError unless x reads as a number
ToFloat(x) ==
    IF x.kind = "num" THEN Ret(x.v)
    ELSE Raise("could not convert string to float: '" \o x.t \o "'")

\* int(x): ValueError unless x reads as a whole number
ToInt(x) ==
    IF x.kind = "num" THEN Ret(x.v)
    ELSE Raise("invalid literal for int() with base 10: '" \o x.t \o "'")

(***************************************************************************)
(* A handler run, as recorded in last: per site given, the call frame of     *)
(* process_site (None when process_site was not called)                     *)
(***************************************************************************)
Frame(a, c, env, run) ==
    [args |-> a, cache |-> c, env |-> env, sent |-> run.sent, cut |-> run.cut,
     result |-> run.result]

Args(lat, lon, fast, rapid, ultra, kw) ==
    [lat |-> lat, lon |-> lon, fast |-> fast, rapid |-> rapid, ultra |-> ultra,
     fast_kw |-> kw[1], rapid_kw |-> kw[2], ultra_kw |-> kw[3]]

(***************************************************************************)
(* Single site: the "Analyze Site" button                                   *)
(***************************************************************************)
InvalidFormat == "Invalid coordinate format. Please enter numeric values."
InvalidRange ==
    "Invalid coordinates. Latitude must be between -90 and 90, longitude between -180 and 180."
Completed == "Site analysis completed!"

\* site = process_site(...); st.session_state["single_site"] = site
AnalyzeValid(a, env, run) ==
    /\ cache' = run.cache
    /\ session_state' = [session_state EXCEPT !.single_site = Some(run.result)]
    /\ last' = [op |-> "single", message |-> Completed,
                frames |-> <<Some(Frame(a, cache, env, run))>>]

AnalyzeArgs(a, env) == AnalyzeValid(a, env, process_site(a, cache, config, env))

AnalyzeSite(lat, lon, fast, rapid, ultra, kw, env) ==
    LET lat_float == ToFloat(lat)
        lon_float == ToFloat(lon)
    IN  /\ runs < MaxRuns
        /\ runs' = runs + 1
        /\ UNCHANGED <<df, config, road_in, road_out>>
        /\ UNCHANGED tomtom_vars
        /\ IF lat_float.raised \/ lon_float.raised
           THEN /\ last' = [op |-> "single", message |-> InvalidFormat,
                            frames |-> <<None>>]
                /\ UNCHANGED <<cache, session_state>>
           ELSE IF ~(-90 <= lat_float.value /\ lat_float.value <= 90)
                   \/ ~(-180 <= lon_float.value /\ lon_float.value <= 180)
           THEN /\ last' = [op |-> "single", message |-> InvalidRange,
                            frames |-> <<None>>]
                /\ UNCHANGED <<cache, session_state>>
           ELSE AnalyzeArgs(Args(lat_float.value, lon_float.value,
                                 fast, rapid, ultra, kw), env)

(***************************************************************************)
(* Batch: the CSV upload and the "Process All Sites" button                 *)
(***************************************************************************)
\* st.file_uploader + pd.read_csv: a file holding the required columns
UploadCsv(rows) ==
    /\ df' = Some(rows)
    /\ UNCHANGED <<cache, session_state, last, runs, config, road_in, road_out>>
    /\ UNCHANGED tomtom_vars

\* the first of the conversions float(latitude), float(longitude), int(fast),
\* int(rapid), int(ultra) that raises, if any
RowConversion(row) ==
    LET conv == <<ToFloat(row.latitude), ToFloat(row.longitude), ToInt(row.fast),
                  ToInt(row.rapid), ToInt(row.ultra)>>
        bad == {i \in 1..5 : conv[i].raised}
    IN  IF bad = {} THEN Ret([i \in 1..5 |-> conv[i].value])
        ELSE conv[CHOOSE i \in bad : \A j \in bad : i <= j]

\* a failed row as a whole record of defaults that carries the error
FailedRowRecord(row, error) ==
    Update(DefaultResult(Args(row.latitude, row.longitude, row.fast, row.rapid,
                              row.ultra, <<22, 60, 150>>)),
           [error |-> error])

\* "Add empty result to maintain alignment"
FailedRow(row, error) ==
    [latitude |-> row.latitude, longitude |-> row.longitude, error |-> error]

\* One iteration of the loop over df.iterrows(): what it appends to results,
\* the cache after it and the frame of its process_site call
RowProcessed(a, c, env, run) ==
    [entry |-> run.result, cache |-> run.cache,
     frame |-> Some(Frame(a, c, env, run))]

RowArgs(a, c, cfg, env) == RowProcessed(a, c, env, process_site(a, c, cfg, env))

RowConverted(row, kw, c, cfg, env, conv) ==
    IF conv.raised
    THEN [entry |-> FailedRow(row, conv.exc), cache |-> c, frame |-> None]
    ELSE RowArgs(Args(conv.value[1], conv.value[2], conv.value[3],
                      conv.value[4], conv.value[5], kw), c, cfg, env)

BatchRow(row, kw, c, cfg, env) ==
    RowConverted(row, kw, c, cfg, env, RowConversion(row))

\* a loop whose except branch appends nothing
AppendedProcessed(acc, it) ==
    [results |-> IF it.frame = None THEN acc.results
                 ELSE Append(acc.results, it.entry),
     frames |-> Append(acc.frames, it.frame),
     cache |-> it.cache]

\* results.append(...)
Appended(acc, it) ==
    [results |-> Append(acc.results, it.entry),
     frames |-> Append(acc.frames, it.frame),
     cache |-> it.cache]

\* the loop: results and frames row by row, the cache threaded through
RECURSIVE BatchLoop(_, _, _, _, _)
BatchLoop(rows, kw, cfg, envs, acc) ==
    IF rows = <<>> THEN acc
    ELSE BatchLoop(Tail(rows), kw, cfg, Tail(envs),
                   Appended(acc, BatchRow(Head(rows), kw, acc.cache, cfg,
                                          Head(envs))))

BatchCompleted == "Batch processing completed!"

\* st.session_state["batch_results"] = results
BatchStore(done) ==
    /\ cache' = done.cache
    /\ session_state' =
          [session_state EXCEPT !.batch_results = Some(done.results)]
    /\ last' = [op |-> "batch", message |-> BatchCompleted,
                frames |-> done.frames]

ProcessAllSites(kw, envs) ==
    /\ runs < MaxRuns
    /\ df # None
    /\ Len(envs) = Len(df[1])
    /\ BatchStore(BatchLoop(df[1], kw, config, envs,
                            [results |-> <<>>, frames |-> <<>>, cache |-> cache]))
    /\ runs' = runs + 1
    /\ UNCHANGED <<df, config, road_in, road_out>>
    /\ UNCHANGED tomtom_vars

(***************************************************************************)
(* The batch result views, computed from st.session_state["batch_results"]  *)
(***************************************************************************)
IsSuccessful(r) == "error" \notin DOMAIN r
IsFailed(r) == "error" \in DOMAIN r

\* "Filter out any failed results"
successful_results(results) == SelectSeq(results, IsSuccessful)
failed_results(results) == SelectSeq(results, IsFailed)

\* the "Failed Sites" list: one line per failed result, numbered by enumerate
FailedSites(failed) ==
    [i \in 1..Len(failed) |->
        [Site_Number |-> i, latitude |-> failed[i].latitude,
         longitude |-> failed[i].longitude, error |-> failed[i].error]]

\* the rows of the downloaded CSV (and the headings "Site {i+1}" of the
\* result tabs): one per successful result, numbered by enumerate
download_data(successful) ==
    [i \in 1..Len(successful) |->
        [Site_Number |-> i, Latitude |-> successful[i].latitude,
         Longitude |-> successful[i].longitude,
         Required_kVA |-> successful[i].required_kva]]

(***************************************************************************)
(* classify_road_type, applied to a (place_types, road_name) pair           *)
(***************************************************************************)
ClassifyRoad ==
    /\ road_in # None
    /\ road_out = None
    /\ road_out' = Some(classify_road_type(road_in[1].place_types,
                                           road_in[1].road_name))
    /\ UNCHANGED <<cache, session_state, df, last, runs, config, road_in>>
    /\ UNCHANGED tomtom_vars

(***************************************************************************)
(* The provider answers explored                                            *)
(***************************************************************************)
(* src/app2.py: the TomTom lookups and the search handler                   *)
(***************************************************************************)
\* how TomTom treats a request: it answers 200, answers an error status,
\* refuses the connection, or never answers
TomTomAnswers == {"OK", "HttpError", "ConnectionError", "Silent"}

\* requests.get(url, params=params, timeout=timeout): without a timeout a
\* request that is never answered never returns
HttpGet(timeout, answer) ==
    IF answer = "Silent"
        THEN IF timeout = None THEN [status |-> "waiting"]
             ELSE [status |-> "raised", exc |-> "Timeout"]
    ELSE IF answer = "ConnectionError"
        THEN [status |-> "raised", exc |-> "ConnectionError"]
    ELSE [status |-> "response", ok |-> (answer = "OK")]

\* response.raise_for_status(); return response.json(), RequestException
\* caught and turned into None
JsonOrNone(r, data) ==
    IF r.status = "waiting" THEN [status |-> "waiting"]
    ELSE IF r.status = "response" /\ r.ok
        THEN [status |-> "returned", value |-> Some(data)]
    ELSE [status |-> "returned", value |-> None]

StationsData ==
    [results |-> <<[name |-> "Station 1", chargingAvailability |-> "park1"]>>]
AvailabilityData == [connectors |-> <<[available |-> 1, occupied |-> 1]>>]

\* the bodies of the two lookups: requests.get is called with no timeout
search_ev_stations(answer) == JsonOrNone(HttpGet(None, answer), StationsData)
get_charging_availability(answer) ==
    JsonOrNone(HttpGet(None, answer), AvailabilityData)

SearchTtl == 180
AvailabilityTtl == 60

\* the age at time t of the entry stored under key, None when there is none
EntryAge(entries, key, t) ==
    IF \E e \in entries : e.key = key
    THEN Some(t - (CHOOSE e \in entries : e.key = key).stored)
    ELSE None

\* A call at time t of a function cached with st.cache_data(ttl=ttl): an
\* entry younger than ttl is returned and nothing is sent; otherwise the body
\* runs and what it returns (None included) replaces the entry.
TtlCall(entries, key, ttl, t, computed) ==
    IF \E e \in entries : e.key = key /\ t - e.stored < ttl
    THEN [sent |-> FALSE, status |-> "returned",
          value |-> (CHOOSE e \in entries : e.key = key).value,
          age |-> EntryAge(entries, key, t), entries |-> entries]
    ELSE IF computed.status = "waiting"
    THEN [sent |-> TRUE, status |-> "waiting", value |-> None,
          age |-> EntryAge(entries, key, t), entries |-> entries]
    ELSE [sent |-> TRUE, status |-> "returned", value |-> computed.value,
          age |-> EntryAge(entries, key, t),
          entries |-> {e \in entries : e.key # key}
                      \cup {[key |-> key, value |-> computed.value,
                             stored |-> t]}]

\* what tomtom_last keeps of a call
CallRecord(c) ==
    [sent |-> c.sent, status |-> c.status, value |-> c.value, age |-> c.age]

\* the arguments of the search: the sidebar is left as it is
SearchKey == "sidebar"

\* tab3: get_charging_availability for the availability id of the station
\* found; the later call for the selected station finds the entry just stored
AvailabilityChecked(s, a) ==
    /\ tomtom_cache' = [search |-> s.entries, availability |-> a.entries]
    /\ tomtom_last' = [status |-> a.status, search |-> Some(CallRecord(s)),
                       availability |-> Some(CallRecord(a))]

\* after stations_data = search_ev_stations(...)
Searched(s, availability_answer) ==
    IF s.status = "waiting"
    THEN /\ tomtom_last' = [status |-> "waiting",
                            search |-> Some(CallRecord(s)),
                            availability |-> None]
         /\ UNCHANGED tomtom_cache
    ELSE IF s.value = None
    THEN /\ tomtom_last' = [status |-> "returned",
                            search |-> Some(CallRecord(s)),
                            availability |-> None]
         /\ tomtom_cache' = [tomtom_cache EXCEPT !.search = s.entries]
    ELSE AvailabilityChecked(
             s,
             TtlCall(tomtom_cache.availability,
                     s.value[1].results[1].chargingAvailability,
                     AvailabilityTtl, now,
                     get_charging_availability(availability_answer)))

\* the "Search EV Charging Stations" button; a run that waits for TomTom
\* never ends, and no later run starts
SearchStations(search_answer, availability_answer) ==
    /\ tomtom_last.status # "waiting"
    /\ Searched(TtlCall(tomtom_cache.search, SearchKey, SearchTtl, now,
                        search_ev_stations(search_answer)),
                availability_answer)
    /\ UNCHANGED <<now, cache, session_state, df, last, runs, config,
                   road_in, road_out>>

\* time passes
Tick ==
    /\ now + TickSeconds <= MaxClock
    /\ now' = now + TickSeconds
    /\ UNCHANGED <<tomtom_cache, tomtom_last, cache, session_state, df, last,
                   runs, config, road_in, road_out>>

(***************************************************************************)
Failed(class) == [class |-> class]

OkPostcode ==
    [class |-> "OK",
     result |-> <<[postcode |-> "SW1A 2DX", admin_ward |-> "St James's",
                   admin_district |-> "Westminster"]>>]

OkGeocode ==
    [class |-> "OK",
     results |-> <<[address_components |->
                       <<[types |-> <<"street_number">>, long_name |-> "10"],
                         [types |-> <<"route">>, long_name |-> "A3212"],
                         [types |-> <<"locality", "political">>,
                          long_name |-> "London"],
                         [types |-> <<"postal_code">>, long_name |-> "SW1A 2AA"],
                         [types |-> <<"country", "political">>,
                          long_name |-> "United Kingdom"]>>,
                    formatted_address |-> "10 A3212, London SW1A 2AA, UK"]>>]

OkTraffic ==
    [class |-> "OK", currentSpeed |-> Some(30), freeFlowSpeed |-> Some(40)]

OkAmenities ==
    [class |-> "OK", amenities |-> <<"Cafe Uno (Cafe)", "Tesco (Supermarket)">>]

EvPlaces ==
    <<[place_id |-> Some("ev1"), name |-> "Tesla Supercharger",
       types |-> <<"point_of_interest">>, lat |-> Some(51), lng |-> Some(1)],
      [place_id |-> Some("ev2"), name |-> "Shell",
       types |-> <<"electric_vehicle_charging_station">>,
       lat |-> Some(52), lng |-> Some(1)]>>

EvDetail(class, name) ==
    [class |-> class, name |-> name, rating |-> "4.5", address |-> "N/A",
     phone |-> "N/A", lat |-> None, lng |-> None]

\* the type search and the five keyword searches answer alike
OkEv ==
    [searches |-> [i \in 1..6 |-> [class |-> "OK", results |-> EvPlaces]],
     details |-> [ev1 |-> EvDetail("OK", "Tesla Supercharger"),
                  ev2 |-> EvDetail("OK", "Shell Recharge")]]

FailedEv(class) ==
    [searches |-> [i \in 1..6 |-> Failed(class)],
     details |-> [ev1 |-> Failed(class), ev2 |-> Failed(class)]]

OkRoads ==
    [snap |-> [class |-> "OK", points |-> <<Some("road1")>>],
     snap_place |-> [class |-> "OK", name |-> Some("A3212"),
                     types |-> <<"route">>],
     nearest |-> [class |-> "OK", points |-> <<Some("road2")>>],
     nearest_place |-> [class |-> "OK", name |-> Some("Whitehall"),
                        types |-> <<"route">>],
     geocode |-> OkGeocode]

FailedRoads(class) ==
    [snap |-> Failed(class), snap_place |-> Failed(class),
     nearest |-> Failed(class), nearest_place |-> Failed(class),
     geocode |-> Failed(class)]

OkAnswer(p) ==
    CASE p = "postcode" -> OkPostcode
      [] p = "geocode" -> OkGeocode
      [] p = "traffic" -> OkTraffic
      [] p = "amenities" -> OkAmenities
      [] p = "ev" -> OkEv
      [] p = "roads" -> OkRoads

FailedAnswer(p, class) ==
    CASE p = "ev" -> FailedEv(class)
      [] p = "roads" -> FailedRoads(class)
      [] OTHER -> Failed(class)

\* the providers in down fail with class, the others answer
Env(down, class) ==
    [p \in Providers |->
        IF p \in down THEN FailedAnswer(p, class) ELSE OkAnswer(p)]

\* how provider p answered in env: its failure class, or "OK"
ClassOf(env, p) ==
    CASE p = "ev" -> env[p].searches[1].class
      [] p = "roads" -> env[p].snap.class
      [] OTHER -> env[p].class

\* the failure class of the providers that fail during a session
BatchClasses == {"HttpError"}

(***************************************************************************)
(* The inputs explored                                                      *)
(***************************************************************************)
DefaultKw == <<22, 60, 150>>
OtherKw == <<7, 50, 350>>
Counts == 0..MaxCount

LatTexts == {Num(51), Num(95), Text("abc")}
LonTexts == {Num(0), Num(181)}

CsvRows ==
    {[latitude |-> Num(51), longitude |-> Num(0),
      fast |-> Num(2), rapid |-> Num(1), ultra |-> Num(1)],
     [latitude |-> Num(95), longitude |-> Num(0),
      fast |-> Num(2), rapid |-> Num(1), ultra |-> Num(1)],
     [latitude |-> Num(52), longitude |-> Num(181),
      fast |-> Num(0), rapid |-> Num(0), ultra |-> Num(1)],
     [latitude |-> Text("abc"), longitude |-> Num(0),
      fast |-> Num(2), rapid |-> Num(1), ultra |-> Num(1)],
     [latitude |-> Num(51), longitude |-> Num(0),
      fast |-> Num(1), rapid |-> Text("two"), ultra |-> Num(1)],
     [latitude |-> Num(53), longitude |-> Num(0),
      fast |-> Num(-1), rapid |-> Num(0), ultra |-> Num(0)]}

RECURSIVE SeqsUpTo(_, _)
SeqsUpTo(S, n) ==
    IF n = 0 THEN {<<>>}
    ELSE LET shorter == SeqsUpTo(S, n - 1)
         IN  shorter \cup {Append(q, x) : q \in shorter, x \in S}

RECURSIVE StringsUpTo(_, _)
StringsUpTo(A, n) ==
    IF n = 0 THEN {""}
    ELSE LET shorter == StringsUpTo(A, n - 1)
         IN  shorter \cup {q \o c : q \in shorter, c \in A}

RoadAlphabet == {"A", "a", "B", "M", "1", "8", " "}
RoadTags == {"highway", "route", "establishment"}
\* every recognised place type and one that is not, with a few road names
AllRoadTags ==
    {"highway", "primary", "secondary", "tertiary", "residential", "service",
     "trunk", "route", "establishment"}
RoadNames == {"", "M1", "A40", "High Street", "Unknown Road"}

(***************************************************************************)
(* Specifications                                                           *)
(***************************************************************************)
Fresh ==
    /\ cache = EmptyCache
    /\ session_state = [single_site |-> None, batch_results |-> None]
    /\ df = None
    /\ last = [op |-> "none", message |-> "", frames |-> <<>>]
    /\ runs = 0
    /\ road_in = None
    /\ road_out = None
    /\ now = 0
    /\ tomtom_cache = [search |-> {}, availability |-> {}]
    /\ tomtom_last = [status |-> "none", search |-> None, availability |-> None]

\* A session of the app on a working installation: an upload and button
\* presses.  Every site finds the providers all answering or all failing.
Init ==
    /\ Fresh
    /\ config = [tomtom_key |-> TRUE, proj_ok |-> TRUE]

Next ==
    \/ \E lat \in LatTexts, lon \in LonTexts,
          down \in {{}, Providers}, class \in BatchClasses :
          AnalyzeSite(lat, lon, 2, 1, 1, DefaultKw, Env(down, class))
    \/ \E rows \in SeqsUpTo(CsvRows, MaxRows) : df = None /\ UploadCsv(rows)
    \/ \E downs \in SeqsUpTo({{}, Providers}, MaxRows), class \in BatchClasses :
          ProcessAllSites(DefaultKw,
                          [i \in 1..Len(downs) |-> Env(downs[i], class)])

Spec == Init /\ [][Next]_vars

\* One analysis of a valid site on any installation, over the charger mixes
\* and the provider answers
InitSite ==
    /\ Fresh
    /\ config \in [tomtom_key : BOOLEAN, proj_ok : BOOLEAN]

NextSite ==
    \/ \E fast \in Counts, rapid \in Counts, ultra \in Counts,
          kw \in {DefaultKw, OtherKw}, down \in {{}, Providers} :
          /\ runs = 0
          /\ AnalyzeSite(Num(51), Num(0), fast, rapid, ultra, kw,
                         Env(down, "HttpError"))
    \/ \E down \in SUBSET Providers, class \in FailureClass :
          /\ runs = 0
          /\ AnalyzeSite(Num(51), Num(0), 2, 1, 1, DefaultKw, Env(down, class))

SpecSite == InitSite /\ [][NextSite]_vars

\* classify_road_type over the place-type lists and road names
InitRoad ==
    /\ cache = EmptyCache
    /\ session_state = [single_site |-> None, batch_results |-> None]
    /\ df = None
    /\ last = [op |-> "none", message |-> "", frames |-> <<>>]
    /\ runs = 0
    /\ config = [tomtom_key |-> TRUE, proj_ok |-> TRUE]
    /\ road_out = None
    /\ now = 0
    /\ tomtom_cache = [search |-> {}, availability |-> {}]
    /\ tomtom_last = [status |-> "none", search |-> None, availability |-> None]
    /\ road_in \in {Some([place_types |-> t, road_name |-> n]) :
                       t \in SeqsUpTo(RoadTags, MaxTags),
                       n \in StringsUpTo(RoadAlphabet, MaxNameLen)}
                  \cup {Some([place_types |-> t, road_name |-> n]) :
                           t \in SeqsUpTo(AllRoadTags, MaxTags),
                           n \in RoadNames}

NextRoad == ClassifyRoad

SpecRoad == InitRoad /\ [][NextRoad]_vars

\* A session of the TomTom availability app: searches as time passes
InitTomTom ==
    /\ Fresh
    /\ config = [tomtom_key |-> TRUE, proj_ok |-> TRUE]

NextTomTom ==
    \/ \E search_answer \in TomTomAnswers, availability_answer \in TomTomAnswers :
          SearchStations(search_answer, availability_answer)
    \/ Tick

SpecTomTom == InitTomTom /\ [][NextTomTom]_vars

\* The answers one provider can give while the others answer: the sub-requests
\* of the roads lookup, of the EV lookup and of the traffic lookup one by one
SnapAnswers(place_id) ==
    {Failed("HttpError"), Failed("Timeout"),
     [class |-> "OK", points |-> <<>>],
     [class |-> "OK", points |-> <<None>>],
     [class |-> "OK", points |-> <<Some(place_id)>>]}

PlaceAnswers(name) ==
    {Failed("HttpError"), Failed("Timeout"),
     [class |-> "OK", name |-> Some(name), types |-> <<"route">>],
     [class |-> "OK", name |-> None, types |-> <<>>]}

GeocodeRoute(components) ==
    [class |-> "OK",
     results |-> <<[address_components |-> components,
                    formatted_address |-> "London, UK"]>>]

RouteAnswers ==
    {Failed("HttpError"), Failed("Timeout"), OkGeocode,
     [class |-> "OK", results |-> <<>>],
     GeocodeRoute(<<[types |-> <<"locality", "political">>,
                     long_name |-> "London"]>>),
     GeocodeRoute(<<[types |-> <<"route">>, long_name |-> "B "],
                    [types |-> <<"route">>, long_name |-> "M25"]>>),
     GeocodeRoute(<<[types |-> <<"locality", "political">>,
                     long_name |-> "London"],
                    [types |-> <<"route">>, long_name |-> "High Street"]>>)}

RoadAnswers ==
    [snap : SnapAnswers("road1"), snap_place : PlaceAnswers("A3212"),
     nearest : SnapAnswers("road2"), nearest_place : PlaceAnswers("Whitehall"),
     geocode : RouteAnswers]

EvPlace(place_id, name, types, lat) ==
    [place_id |-> Some(place_id), name |-> name, types |-> types,
     lat |-> lat, lng |-> Some(1)]

EvFound(lat) ==
    <<EvPlace("ev1", "Tesla Supercharger", <<"point_of_interest">>, lat),
      EvPlace("ev2", "Shell", <<"electric_vehicle_charging_station">>,
              Some(52)),
      EvPlace("ev2", "Shell", <<"electric_vehicle_charging_station">>,
              Some(52))>>

EvDetailAnswers(name) ==
    {[EvDetail(class, name) EXCEPT !.lat = lat, !.lng = lat] :
        class \in Outcome, lat \in {None, Some(53)}}

\* the type search answers with first, the five keyword searches find places
EvAnswer(first, lat, d1, d2) ==
    [searches |-> [i \in 1..6 |->
                      IF i = 1 /\ first # "OK" THEN Failed(first)
                      ELSE [class |-> "OK", results |-> EvFound(lat)]],
     details |-> [ev1 |-> d1, ev2 |-> d2]]

EvAnswers ==
    {EvAnswer(first, lat, d1, d2) :
        first \in {"OK", "HttpError", "Timeout"},
        lat \in {None, Some(0), Some(51)},
        d1 \in EvDetailAnswers("Tesla Supercharger"),
        d2 \in {EvDetail("OK", "Shell Recharge"), EvDetail("HttpError", "")}}

\* free flow 40: the ratio is 0.6 at speed 24 and 0.85 at speed 34
TrafficAnswers ==
    {Failed(class) : class \in FailureClass}
    \cup [class : {"OK"},
          currentSpeed : {None, Some(0), Some(24), Some(25), Some(34),
                          Some(35), Some(40)},
          freeFlowSpeed : {None, Some(0), Some(40)}]

\* One analysis of a valid site on any installation, over the answers of the
\* roads, the EV and the traffic provider
InitAnswers ==
    /\ Fresh
    /\ config \in [tomtom_key : BOOLEAN, proj_ok : BOOLEAN]

AnalyzeWith(p, answer) ==
    /\ runs = 0
    /\ AnalyzeSite(Num(51), Num(0), 2, 1, 1, DefaultKw,
                   [Env({}, "HttpError") EXCEPT ![p] = answer])

NextAnswers ==
    \/ \E answer \in RoadAnswers : AnalyzeWith("roads", answer)
    \/ \E answer \in EvAnswers : AnalyzeWith("ev", answer)
    \/ \E answer \in TrafficAnswers : AnalyzeWith("traffic", answer)

SpecAnswers == InitAnswers /\ [][NextAnswers]_vars

(***************************************************************************)
(* Properties                                                               *)
(***************************************************************************)
\* the process_site calls of the last handler run
Frames ==
    {last.frames[i][1] : i \in {j \in DOMAIN last.frames : last.frames[j] # None}}

\* the keys of result each provider's statement group writes
Owned ==
    [postcode |-> {"postcode", "ward", "district"},
     geocode |-> {"street", "street_number", "neighborhood", "city", "county",
                  "region", "country", "formatted_address"},
     traffic |-> {"traffic_speed", "traffic_freeflow", "traffic_congestion"},
     amenities |-> {"amenities"},
     ev |-> {"competitor_ev_count", "competitor_ev_names",
             "ev_stations_details"},
     roads |-> {"snapped_road_name", "snapped_road_type", "nearest_road_name",
                "nearest_road_type", "place_id"}]

\* the keys of the result process_site starts from
SiteKeys ==
    {"latitude", "longitude", "easting", "northing"}
    \cup {"fast_chargers", "rapid_chargers", "ultra_chargers", "required_kva"}
    \cup UNION {Owned[p] : p \in Providers}

\* the value result holds under key k before any provider is asked
Placeholder(k) == DefaultResult(Args(0, 0, 0, 0, 0, DefaultKw))[k]

TotalKw(a) == a.fast * a.fast_kw + a.rapid * a.rapid_kw + a.ultra * a.ultra_kw

Abs(x) == IF x < 0 THEN -x ELSE x

\* v hundredths is num/den rounded to two decimals
IsRounded(v, num, den) == 2 * Abs(den * v - 100 * num) <= den

AllFailed(env) == \A p \in Providers : ClassOf(env, p) # "OK"

InRange(lat, lon) == -90 <= lat /\ lat <= 90 /\ -180 <= lon /\ lon <= 180

\* C1 as the sizing rule states it: the required_kva of every record that
\* process_site computed is round(total_kw / 0.9, 2), with no overhead factor.
C1_KvaWithoutOverhead ==
    \A f \in Frames :
        ~f.cut => IsRounded(f.result.required_kva, 10 * TotalKw(f.args), 9)

\* C1: for all non-negative charger counts and all ratings, the required_kva
\* of the record returned by process_site is round(total_kw / 0.9 * 1.1, 2),
\* the 10% overhead included, whenever the grid conversion before it returned;
\* when that conversion raised, required_kva is still the default 0.
C1_KvaWithOverhead ==
    \A f \in Frames :
        IF config.proj_ok
        THEN IsRounded(f.result.required_kva, 11 * TotalKw(f.args), 9)
        ELSE f.result.required_kva = 0

\* 2 fast, 1 rapid, 1 ultra at 22/60/150 kW: 254 kW, recorded as 310.44 kVA
C1_Example ==
    \E f \in Frames :
        /\ f.args = Args(51, 0, 2, 1, 1, DefaultKw)
        /\ ~f.cut
        /\ f.result.required_kva = 31044

\* C2: when every provider fails, process_site returns a record whose
\* required_kva is the computed value and whose every provider-owned field
\* holds its placeholder.
C2_AllFailedPlaceholders ==
    \A f \in Frames :
        AllFailed(f.env) =>
            /\ IsRounded(f.result.required_kva, 11 * TotalKw(f.args), 9)
            /\ \A p \in Providers : \A k \in Owned[p] :
                   f.result[k] = Placeholder(k)

\* C3: a failure of provider p neither skips another provider's lookup nor
\* changes its fields: the request to every other provider q is sent, and
\* q's fields are the same, as in the run where p answers and everything
\* else is as it was.
C3_FailureIsolated ==
    \A f \in Frames : \A p \in Providers :
        ClassOf(f.env, p) # "OK" =>
            LET ok == process_site(f.args, f.cache, config,
                                   [f.env EXCEPT ![p] = OkAnswer(p)])
            IN  \A q \in Providers \ {p} :
                    /\ q \in f.sent <=> q \in ok.sent
                    /\ \A k \in Owned[q] : f.result[k] = ok.result[k]

\* the postcode lookup timed out and the geocoder and the roads lookups still
\* ran and filled their fields
C3_PostcodeDownOthersFilled ==
    \E f \in Frames :
        /\ ClassOf(f.env, "postcode") = "Timeout"
        /\ ClassOf(f.env, "geocode") = "OK"
        /\ ClassOf(f.env, "roads") = "OK"
        /\ f.result.postcode = "N/A"
        /\ f.result.city # "N/A"
        /\ f.result.snapped_road_name # "Unknown"
        /\ {"geocode", "roads"} \subseteq f.sent

\* C4: a coordinate with latitude outside [-90, 90] or longitude outside
\* [-180, 180] is rejected on the single-site path and as a batch row alike:
\* process_site is never run on it, so no provider is asked about it.
C4_OutOfRangeRejected ==
    \A f \in Frames : InRange(f.args.lat, f.args.lon)

\* C5: a charger configuration with a negative count is rejected: no record
\* is ever computed from one, batch rows included.
C5_NegativeCountRejected ==
    \A f \in Frames : f.args.fast >= 0 /\ f.args.rapid >= 0 /\ f.args.ultra >= 0

\* C6: after a batch run over n rows the stored result list has n entries and
\* entry i carries the latitude and longitude of row i, whichever rows raised
\* an error or met provider failures.
C6_BatchAligned ==
    session_state.batch_results # None =>
        LET results == session_state.batch_results[1]
            rows == df[1]
        IN  /\ Len(results) = Len(rows)
            /\ \A i \in DOMAIN results :
                   IF "error" \in DOMAIN results[i]
                   THEN /\ results[i].latitude = rows[i].latitude
                        /\ results[i].longitude = rows[i].longitude
                   ELSE /\ Num(results[i].latitude) = rows[i].latitude
                        /\ Num(results[i].longitude) = rows[i].longitude

\* a batch of two rows: the first raised, the second ran into failing providers
C6_MixedBatch ==
    /\ session_state.batch_results # None
    /\ Len(session_state.batch_results[1]) = 2
    /\ "error" \in DOMAIN session_state.batch_results[1][1]
    /\ "error" \notin DOMAIN session_state.batch_results[1][2]
    /\ session_state.batch_results[1][2].postcode = "N/A"

\* C7 as stated: a batch row that fails entirely is represented by a full
\* site record, every provider-owned field present and at its placeholder,
\* that carries the error.
C7_FailedRowFullRecord ==
    last.op = "batch" =>
        \A i \in DOMAIN last.frames :
            last.frames[i] = None =>
                LET e == session_state.batch_results[1][i]
                IN  /\ SiteKeys \cup {"error"} \subseteq DOMAIN e
                    /\ \A p \in Providers : \A k \in Owned[p] :
                           e[k] = Placeholder(k)

\* C7: a batch row whose conversion raises does not stop the batch: every
\* row that converts is still processed, and the failed row is represented by
\* a stub that holds only the row's latitude and longitude cells and the
\* error text, with no provider-owned field.
C7_FailedRowStub ==
    last.op = "batch" =>
        /\ Len(last.frames) = Len(df[1])
        /\ \A i \in DOMAIN last.frames :
               LET conv == RowConversion(df[1][i])
               IN  /\ last.frames[i] = None <=> conv.raised
                   /\ conv.raised =>
                          session_state.batch_results[1][i] =
                              [latitude |-> df[1][i].latitude,
                               longitude |-> df[1][i].longitude,
                               error |-> conv.exc]

\* a batch whose first row raised and whose second row was processed
C7_FailedThenProcessed ==
    /\ last.op = "batch"
    /\ Len(last.frames) = 2
    /\ last.frames[1] = None
    /\ last.frames[2] # None
    /\ DOMAIN session_state.batch_results[1][1] =
           {"latitude", "longitude", "error"}

\* C8: every record returned by process_site has the same keys, whichever
\* providers failed and wherever the try block ended.
C8_SameKeys ==
    \A f \in Frames : DOMAIN f.result = SiteKeys

\* a record with a failed provider's fields at their placeholders next to an
\* answering provider's fields
C8_PartialRecord ==
    \E f \in Frames :
        /\ ClassOf(f.env, "geocode") # "OK"
        /\ ClassOf(f.env, "postcode") = "OK"
        /\ f.result.city = "N/A"
        /\ f.result.postcode # "N/A"
        /\ DOMAIN f.result = SiteKeys

\* C9: the record retains the class of a provider's failure: had the provider
\* failed with another class, its fields in the record would differ.
C9_ClassRetained ==
    \A f \in Frames : \A p \in Providers :
        ClassOf(f.env, p) # "OK" =>
            \A class \in FailureClass \ {ClassOf(f.env, p)} :
                LET other == process_site(f.args, f.cache, config,
                                 [f.env EXCEPT ![p] = FailedAnswer(p, class)])
                IN  \E k \in Owned[p] : other.result[k] # f.result[k]

\* C10: classify_road_type returns a road type for every list of tags and
\* every road name, without raising.
C10_ClassifyTotal ==
    road_out # None => ~road_out[1].raised

\* the road names that begin with 'M' or 'm' immediately followed by a digit
IsMotorwayNumber(road_name) ==
    /\ Len(road_name) >= 2
    /\ Char(road_name, 1) \in {"M", "m"}
    /\ IsDigitChar(Char(road_name, 2))

\* C11: with an empty tag list, every road name that begins with 'M' or 'm'
\* immediately followed by a digit is classified as Motorway.
C11_MotorwayNumbers ==
    (road_out # None /\ road_in[1].place_types = <<>>
        /\ IsMotorwayNumber(road_in[1].road_name))
    => road_out[1] = Ret("Motorway")

\* the closed taxonomy, each of its members under the labels the code could
\* use for it
ClosedTaxonomy ==
    {"Motorway", "A Road", "Primary Road", "B Road", "Secondary Road",
     "Local Road", "Residential Street", "Service Road", "Roundabout",
     "Unknown"}

\* the labels of the return statements of the two classification functions
RoadTypes ==
    {TagLabel[t] : t \in DOMAIN TagLabel}
    \cup {"Motorway", "A Road", "B Road", "Dual Carriageway", "Local Road",
          "Roundabout"}

\* C12 as stated: every value classify_road_type returns is a member of the
\* closed taxonomy {Motorway, A-Road/Primary, B-Road/Secondary,
\* Local/Residential, Service Road, Roundabout, Unknown}.
C12_ClosedTaxonomy ==
    (road_out # None /\ ~road_out[1].raised) => road_out[1].value \in ClosedTaxonomy

\* C12: every value classify_road_type returns, for any tags and any name on
\* which it returns at all, is one of the fourteen labels Highway, Primary
\* Road, Secondary Road, Tertiary Road, Residential Street, Service Road,
\* Trunk Road, Route, Motorway, A Road, B Road, Dual Carriageway, Local Road,
\* Roundabout; "Unknown" is never returned.
C12_FourteenLabels ==
    (road_out # None /\ ~road_out[1].raised) =>
        /\ road_out[1].value \in RoadTypes
        /\ road_out[1].value # "Unknown"

\* a trunk road was classified from its tag
C12_TrunkRoad ==
    /\ road_out # None
    /\ road_in[1].place_types = <<"trunk">>
    /\ road_out[1] = Ret("Trunk Road")

\* C20: when the tag list holds a recognised tag the result is the label of
\* the first recognised tag in the fixed priority order, whatever the road
\* name; only otherwise is it classify_road_type_from_name(name).
C20_TagsBeforeName ==
    road_out # None =>
        LET hits == {i \in 1..Len(TagPriority) :
                        In(TagPriority[i], road_in[1].place_types)}
        IN  IF hits # {}
            THEN road_out[1] =
                     Ret(TagLabel[TagPriority[CHOOSE i \in hits :
                                                 \A j \in hits : i <= j]])
            ELSE road_out[1] = classify_road_type_from_name(road_in[1].road_name)

\* a list that names route before highway, with a motorway's name, was
\* classified as Highway
C20_PriorityNotListOrder ==
    /\ road_out # None
    /\ road_in[1] = [place_types |-> <<"route", "highway">>, road_name |-> "M1"]
    /\ road_out[1] = Ret("Highway")

\* C13: a second process_site call with a coordinate that every cached lookup
\* has already answered sends no request to any provider.
C13_SecondCallSendsNothing ==
    \A f \in Frames :
        (\A p \in CachedProviders :
            Cached(f.cache, p, <<f.args.lat, f.args.lon>>) # {})
        => f.sent = {}

\* C14: when the nearby searches of one get_nearby_amenities call keep being
\* answered with a rate-limit failure, the delay before each further search
\* is strictly longer than the delay before the one preceding it.
C14_BackoffGrows ==
    \A f \in Frames :
        ("amenities" \in f.sent /\ ClassOf(f.env, "amenities") = "HttpError") =>
            LET delays == AmenityPacing(f.env.amenities)
            IN  \A i \in 1..(Len(delays) - 1) : delays[i + 1] > delays[i]

\* C16: convert_to_british_grid never raises, a failure to obtain the
\* transformer included: it returns two numbers or (None, None).
C16_GridNeverRaises ==
    \A f \in Frames :
        LET grid == convert_to_british_grid(config.proj_ok, f.args.lat, f.args.lon)
        IN  /\ ~grid.raised
            /\ (grid.value[1] = None) <=> (grid.value[2] = None)

\* C17: a grid-conversion failure is not fatal to process_site: required_kva
\* is still the computed capacity and every provider is still looked up.
C17_GridFailureNotFatal ==
    \A f \in Frames :
        (~config.proj_ok /\ f.cache = EmptyCache) =>
            /\ f.result.easting = None
            /\ f.result.northing = None
            /\ IsRounded(f.result.required_kva, 11 * TotalKw(f.args), 9)
            /\ CachedProviders \subseteq f.sent

\* what process_site writes from the answer of provider p alone
ProviderMerge(p, cfg, env) ==
    CASE p = "postcode" -> MergePostcode(get_postcode_info(env.postcode).value)
      [] p = "geocode" -> MergeGeocode(get_geocode_details(env.geocode).value)
      [] p = "traffic" ->
            MergeTraffic(get_tomtom_traffic(cfg.tomtom_key, env.traffic).value)
      [] p = "amenities" ->
            MergeAmenities(get_nearby_amenities(env.amenities).value)
      [] p = "ev" -> MergeEv(get_ev_charging_stations(env.ev).value)
      [] p = "roads" -> MergeRoads(get_road_info_google_roads(env.roads).value)

\* the merges m of the providers write disjoint keys, commute on the record
\* before and are all found in the record after
MergeOrderFree(before, after, m) ==
    /\ \A p \in Providers : DOMAIN m[p] = Owned[p]
    /\ \A p \in Providers : \A q \in Providers \ {p} :
           /\ DOMAIN m[p] \cap DOMAIN m[q] = {}
           /\ Update(Update(before, m[p]), m[q])
                  = Update(Update(before, m[q]), m[p])
    /\ \A p \in Providers : \A k \in DOMAIN m[p] : after[k] = m[p][k]

\* C18: the merge in process_site is field-disjoint and commutative: every
\* provider's answer is written to its own keys only (postcode comes from the
\* postcode provider alone), so the record is the same for every order of
\* the merges.
C18_MergeDisjoint ==
    \A f \in Frames :
        (~f.cut /\ f.cache = EmptyCache) =>
            MergeOrderFree(DefaultResult(f.args), f.result,
                           [p \in Providers |-> ProviderMerge(p, config, f.env)])

\* the geocoder reported one postcode, the postcode provider another, and the
\* record holds the postcode provider's
C18_TwoPostcodes ==
    \E f \in Frames :
        /\ ~f.cut
        /\ f.cache = EmptyCache
        /\ ClassOf(f.env, "postcode") = "OK"
        /\ ClassOf(f.env, "geocode") = "OK"
        /\ get_geocode_details(f.env.geocode).value.postcode = "SW1A 2AA"
        /\ f.result.postcode = "SW1A 2DX"

\* C15: every HTTP request carries a bounded timeout, so a provider that never
\* answers cannot hang the caller: no lookup is left waiting for a response.
C15_NoLookupHangs ==
    tomtom_last.status # "waiting"

\* C19: a get_charging_availability call less than 3 minutes after the fetch
\* of its entry is served from the cache without a request, and a call 3
\* minutes or more after it sends a new request.
C19_ThreeMinuteRefresh ==
    (tomtom_last.availability # None /\ tomtom_last.availability[1].age # None)
    => (tomtom_last.availability[1].sent
            <=> tomtom_last.availability[1].age[1] >= 180)

\* road_info when the Snap to Roads and the Nearest Roads attempts are over
RoadsApiInfo(resp) == RoadAfterSnap(RoadSnap(RoadDefaults, resp), resp)

\* the name of the first route component the reverse geocoder returned, if any
RouteFound(geocode) ==
    IF geocode.class = "OK" /\ Len(geocode.results) > 0
    THEN LET comps == geocode.results[1].address_components
             routes == {i \in 1..Len(comps) : In("route", comps[i].types)}
         IN  IF routes = {} THEN None
             ELSE Some(comps[CHOOSE r \in routes : \A q \in routes : r <= q]
                           .long_name)
    ELSE None

BothUnknown(road_info) ==
    /\ road_info.snapped_road_name = "Unknown"
    /\ road_info.nearest_road_name = "Unknown"

\* C21: the reverse-geocoding fallback acts only when the snapped and the
\* nearest road name are both still "Unknown" after the Roads API attempts,
\* so it never overwrites a name or type those attempts obtained; and when
\* it finds a route component, the snapped and the nearest name both become
\* that component's name and both types classify_road_type_from_name of it.
C21_FallbackFillsBoth ==
    \A f \in Frames :
        LET resp == f.env.roads
            before == RoadsApiInfo(resp)
            found == RouteFound(resp.geocode)
        IN  /\ (~f.cut /\ ~BothUnknown(before)) =>
                \A k \in Owned.roads : f.result[k] = before[k]
            /\ (~f.cut /\ BothUnknown(before) /\ found # None) =>
                /\ f.result.snapped_road_name = found[1]
                /\ f.result.nearest_road_name = found[1]
                /\ Ret(f.result.snapped_road_type)
                       = classify_road_type_from_name(found[1])
                /\ Ret(f.result.nearest_road_type)
                       = classify_road_type_from_name(found[1])

\* C26: whenever the Nearest Roads request returns a point with a place id
\* and the place-details request for it succeeds, nearest_road_name is the
\* name of that place, whether or not Snap to Roads returned a point with a
\* place id.
C26_NearestWithoutSnap ==
    \A f \in Frames :
        LET resp == f.env.roads
        IN  (/\ ~f.cut
             /\ resp.nearest.class = "OK"
             /\ resp.nearest.points # <<>>
             /\ resp.nearest.points[1] # None
             /\ resp.nearest_place.class = "OK"
             /\ resp.nearest_place.name # None) =>
                /\ f.result.nearest_road_name = resp.nearest_place.name[1]
                /\ f.result.nearest_road_type # "Unknown"

\* the stations the nearby searches of resp found, duplicates removed, when
\* no search raised
EvFoundStations(resp) ==
    LET all_results == EvSearch(resp.searches, <<>>)
    IN  IF all_results.raised THEN <<>>
        ELSE EvUnique(all_results.value, <<>>)

\* C22: whenever the details lookup for a found station fails in any way (an
\* exception, a non-200 status or a details status other than OK) and the
\* search result carried coordinates, the station is in the returned list
\* with its basic information.
C22_FailedDetailsKeepStation ==
    \A f \in Frames :
        LET resp == f.env.ev
            found == EvFoundStations(resp)
            ev_stations == f.result.ev_stations_details
        IN  \A i \in 1..Len(found) :
                (/\ ~f.cut
                 /\ resp.details[found[i].place_id].class # "OK"
                 /\ Truthy(found[i].latitude)
                 /\ Truthy(found[i].longitude)) =>
                    \E j \in 1..Len(ev_stations) : ev_stations[j] = found[i]

\* C23: the list get_ev_charging_stations returns never holds two entries
\* with the same place_id, and every entry of it has a latitude and a
\* longitude.
C23_UniqueWithCoordinates ==
    \A f \in Frames :
        LET ev_stations == f.result.ev_stations_details
        IN  /\ \A i, j \in 1..Len(ev_stations) :
                   ev_stations[i].place_id = ev_stations[j].place_id => i = j
            /\ \A i \in 1..Len(ev_stations) :
                   /\ ev_stations[i].latitude # None
                   /\ ev_stations[i].longitude # None

\* the searches returned the same place several times, one of them without
\* coordinates, and the list holds the other place once
C23_DuplicatesFound ==
    \E f \in Frames :
        LET all_results == EvSearch(f.env.ev.searches, <<>>)
            ev_stations == f.result.ev_stations_details
        IN  /\ ~all_results.raised
            /\ \E i, j \in 1..Len(all_results.value) :
                   /\ i # j
                   /\ all_results.value[i].place_id = Some("ev2")
                   /\ all_results.value[j].place_id = Some("ev2")
            /\ \E i \in 1..Len(all_results.value) :
                   /\ all_results.value[i].place_id = Some("ev1")
                   /\ all_results.value[i].lat = None
            /\ Len(ev_stations) = 1
            /\ ev_stations[1].place_id = "ev2"

\* C24: when TomTom answers HTTP 200 with a current speed s >= 0 and a
\* free-flow speed f > 0, the congestion recorded is Low when s/f > 0.85,
\* Medium when 0.6 < s/f <= 0.85 and High when s/f <= 0.6; a standstill
\* (s = 0) is High.
C24_LevelBySpeedRatio ==
    \A f \in Frames :
        LET traffic == f.env.traffic
        IN  (/\ config.tomtom_key /\ ~f.cut
             /\ traffic.class = "OK"
             /\ traffic.currentSpeed # None /\ traffic.freeFlowSpeed # None
             /\ traffic.currentSpeed[1] >= 0 /\ traffic.freeFlowSpeed[1] > 0) =>
                LET s == traffic.currentSpeed[1]
                    ff == traffic.freeFlowSpeed[1]
                IN  f.result.traffic_congestion =
                        IF 100 * s > 85 * ff THEN "Low"
                        ELSE IF 100 * s > 60 * ff THEN "Medium"
                        ELSE "High"

\* C25: on an installation without a TomTom key, process_site sends no
\* request to TomTom and records speed None, free flow None and congestion
\* "N/A"; every other provider is asked and its fields are filled exactly as
\* on the same run with a key configured.
C25_NoKeyNoRequest ==
    \A f \in Frames :
        ~config.tomtom_key =>
            LET keyed == process_site(f.args, f.cache,
                                      [config EXCEPT !.tomtom_key = TRUE], f.env)
            IN  /\ "traffic" \notin f.sent
                /\ f.result.traffic_speed = None
                /\ f.result.traffic_freeflow = None
                /\ f.result.traffic_congestion = "N/A"
                /\ f.sent = keyed.sent \ {"traffic"}
                /\ \A q \in Providers \ {"traffic"} :
                       \A k \in Owned[q] : f.result[k] = keyed.result[k]

\* no key, TomTom would have answered, and the five other providers were
\* asked and their fields filled
C25_NoKeyOthersAsked ==
    \E f \in Frames :
        /\ ~config.tomtom_key
        /\ f.env.traffic = OkTraffic
        /\ f.sent = Providers \ {"traffic"}
        /\ f.result.traffic_congestion = "N/A"
        /\ f.result.postcode = "SW1A 2DX"
        /\ f.result.snapped_road_name = "A3212"
        /\ f.result.competitor_ev_count = 2

\* C29: in every record process_site returns, competitor_ev_count is the
\* number of entries of ev_stations_details, and competitor_ev_names is
\* "None" exactly when that list is empty.
C29_EvSummaryMatchesList ==
    \A f \in Frames :
        /\ f.result.competitor_ev_count = Len(f.result.ev_stations_details)
        /\ f.result.competitor_ev_names = "None"
               <=> f.result.ev_stations_details = <<>>

\* two stations were found, the details lookup dropped one, and the record
\* counts and names the one that is left
C29_OneStationLeft ==
    \E f \in Frames :
        /\ Len(EvFoundStations(f.env.ev)) = 2
        /\ Len(f.result.ev_stations_details) = 1
        /\ f.result.competitor_ev_count = 1
        /\ f.result.competitor_ev_names = "Shell Recharge"

\* C30: in every record process_site returns, traffic_congestion is "N/A"
\* exactly when traffic_speed is None, and exactly when traffic_freeflow is
\* None; when the three are present, traffic_congestion is Low, Medium or
\* High.
C30_TrafficFieldsTogether ==
    \A f \in Frames :
        /\ f.result.traffic_congestion = "N/A" <=> f.result.traffic_speed = None
        /\ f.result.traffic_speed = None <=> f.result.traffic_freeflow = None
        /\ f.result.traffic_congestion # "N/A" =>
               f.result.traffic_congestion \in {"Low", "Medium", "High"}

\* TomTom reported both speeds and the record holds all three fields
C30_TrafficPresent ==
    \E f \in Frames :
        /\ f.env.traffic.class = "OK"
        /\ f.env.traffic.currentSpeed = Some(35)
        /\ f.result.traffic_speed = Some(35)
        /\ f.result.traffic_freeflow = Some(40)
        /\ f.result.traffic_congestion = "Low"

\* what the cached adapter p returns when its provider answers with answer
AdapterCall(p, answer) ==
    CASE p = "postcode" -> get_postcode_info(answer)
      [] p = "geocode" -> get_geocode_details(answer)
      [] p = "amenities" -> get_nearby_amenities(answer)
      [] p = "ev" -> get_ev_charging_stations(answer)
      [] p = "roads" -> get_road_info_google_roads(answer)

\* the cache c holds, for adapter p and the arguments key, the value of a
\* call during which the provider failed
FailureCached(c, p, key) ==
    \E e \in Cached(c, p, key) : \E class \in BatchClasses :
        Ret(e[2]) = AdapterCall(p, FailedAnswer(p, class))

\* C27: a failed lookup is not remembered by the cache: when a cached
\* provider failed for a coordinate and answers again, a later process_site
\* call with the same coordinate sends the request to the provider again and
\* returns its data.
C27_FailureNotRemembered ==
    \A f \in Frames : \A p \in CachedProviders :
        (/\ ClassOf(f.env, p) = "OK"
         /\ ~f.cut
         /\ FailureCached(f.cache, p, <<f.args.lat, f.args.lon>>)) =>
            /\ p \in f.sent
            /\ \A k \in Owned[p] :
                   f.result[k] = ProviderMerge(p, config, f.env)[k]

\* the input row of the j-th result among those whose rows are in kept
NthRow(kept, j) == CHOOSE i \in kept : Cardinality({k \in kept : k <= i}) = j

\* C28: in the batch result views and the downloaded CSV, the site number
\* shown with a result is the 1-based position of its row in the uploaded
\* input, also when an earlier row failed; and every line of the failed-sites
\* list is numbered by the position of its row in the input.
C28_NumberedByInputRow ==
    session_state.batch_results # None =>
        LET results == session_state.batch_results[1]
            processed == {i \in 1..Len(results) : IsSuccessful(results[i])}
            failed == (1..Len(results)) \ processed
            csv == download_data(successful_results(results))
            lines == FailedSites(failed_results(results))
        IN  /\ \A j \in 1..Len(csv) :
                   csv[j].Site_Number = NthRow(processed, j)
            /\ \A j \in 1..Len(lines) :
                   lines[j].Site_Number = NthRow(failed, j)

============================================================================
